---- MODULE Spec2Model ----
(***************************************************************************)
(* A model of the Advent of Code solutions of this repository: the common  *)
(* main routine and input readers of the thirteen programs, the dial of    *)
(* 2025 Day 1, the joltage solver of 2025 Day 10 and the path counters of  *)
(* 2025 Day 11.  Each program is a separate specification over its own     *)
(* variables; the variables of the other programs stay at their initial    *)
(* values.                                                                 *)
(***************************************************************************)
EXTENDS Integers, Sequences, FiniteSets, TLC

VARIABLES
    \* ---- main and read_input (all programs) ----
    day,          \* which program runs
    files,        \* the directory: file name -> [status, field, unsolved]
    nextComp,     \* index in Plan(day) of the next part computation of main
    started,      \* indices of the part computations main has started, in order
    stdout,       \* answer lines written to standard output, in order
    stderr,       \* error messages written to standard error, in order
    mainPc,       \* "running" | "exited"
    exitStatus,   \* the value main returned (meaningful once mainPc = "exited")
    \* ---- 2025 Day 1: the dial ----
    instructions, \* the instruction list read_input returned
    dialPc,       \* "part1" | "part2" | "done" | "trapped"
    dialIdx,      \* number of instructions the running loop has consumed
    position,     \* the loop's position variable
    zero_counter, \* the loop's zero_counter variable
    positions1,   \* part 1's position after each instruction (history)
    result1,      \* value part 1 returned
    result2,      \* value part 2 returned
    wrapped,      \* TRUE once a signed addition of part 2 overflowed
    \* ---- 2025 Day 10: the machines ----
    machines,     \* the machines read_input / read_input_part2 returned
    machinePc,    \* "part1" | "part2" | "done" | "raised"
    machineIdx,   \* number of machines the running loop has solved
    totalPresses, \* the loop's totalPresses variable
    presses,      \* the loop's presses variable: the solver's last return value
    total1,       \* value part 1 returned
    total2,       \* value part 2 returned
    failedPart,   \* the part that threw "No solution found" (0: none)
    failedMachine, \* the machine number in that message (0: none)
    \* ---- 2025 Day 11: the network ----
    graph,        \* the map read_input returned: device -> list of outputs
    netPc,        \* "part1" | "part2" | "done"
    pathCount,    \* value part 1 returned
    totalValidPaths, \* value part 2 returned
    memo,         \* part 2's memoization cache when it returned
    \* ---- 2025 Day 12: the presents ----
    shapes,       \* the shape patterns read_input returned
    regions,      \* the regions read_input returned: [width, height, counts]
    regionIdx,    \* number of regions the loop of part 1 has tried
    validRegions, \* the loop's validRegions variable
    fits,         \* what try_place_presents returned for each region tried
    presentPc,    \* "part1" | "done"
    result12,     \* value part 1 returned
    \* ---- 2025 Day 9: the red tiles ----
    tiles,        \* the red tiles read_input returned
    tilePc,       \* "part1" | "part2" | "done"
    maxArea1,     \* value part 1 returned
    maxArea2,     \* value part 2 returned
    accepted,     \* the pairs whose rectangle part 2 accepted
    \* ---- 2025 Day 5: the fresh ranges ----
    inputRanges,  \* the ranges read_input returned, in file order
    freshRanges,  \* part 2's copy of them, which it sorts
    rangePc,      \* "sort" | "merge" | "done"
    rangeIdx,     \* number of ranges the merging loop has consumed
    mergedRanges, \* the merging loop's mergedRanges vector
    totalFreshIds, \* value part 2 returned
    \* ---- 2025 Day 4: the rolls ----
    inputGrid,    \* the grid read_input returned
    rollGrid,     \* part 2's grid variable, which it changes
    rollPc,       \* "start" | "loop" | "done"
    changed,      \* the loop's changed flag
    rounds,       \* number of iterations of the while loop so far
    totalRemoved  \* the loop's totalRemoved variable, the value returned

mainVars == <<day, files, nextComp, started, stdout, stderr, mainPc, exitStatus>>
dialVars == <<instructions, dialPc, dialIdx, position, zero_counter, positions1,
              result1, result2, wrapped>>
machineVars == <<machines, machinePc, machineIdx, totalPresses, presses, total1,
                 total2, failedPart, failedMachine>>
netVars == <<graph, netPc, pathCount, totalValidPaths, memo>>
presentVars == <<shapes, regions, regionIdx, validRegions, fits, presentPc, result12>>
tileVars == <<tiles, tilePc, maxArea1, maxArea2, accepted>>
rangeVars == <<inputRanges, freshRanges, rangePc, rangeIdx, mergedRanges, totalFreshIds>>
rollVars == <<inputGrid, rollGrid, rollPc, changed, rounds, totalRemoved>>
laterVars == <<presentVars, tileVars, rangeVars, rollVars>>
vars == <<mainVars, dialVars, machineVars, netVars, laterVars>>

(***************************************************************************)
(* Bounds of the model.                                                    *)
(***************************************************************************)
MaxFieldLen == 2     \* longest numeric field put in an input file
MaxInstr == 2        \* longest instruction list of 2025 Day 1
MaxButtons == 2      \* most buttons of a machine of 2025 Day 10
MaxMachines == 2     \* most machines in an input file of 2025 Day 10
MaxOutputs == 2      \* longest output list of a device of 2025 Day 11
MaxShapes == 2       \* most shapes in an input file of 2025 Day 12
MaxRegions == 2      \* most regions in an input file of 2025 Day 12
MaxTiles == 3        \* most tiles of a freely drawn input file of 2025 Day 9
MaxRanges == 3       \* most fresh ranges in an input file of 2025 Day 5
MaxEmpty == 4        \* most cells without a roll in a grid of 2025 Day 4

(***************************************************************************)
(* Characters and the standard conversions the readers call.  A text is a  *)
(* sequence of one-character strings.                                      *)
(***************************************************************************)
Digits == {"7"}
Whitespace == {" ", "\n"}
Chars == {"7", "a"}

DigitVal(c) == IF c = "7" THEN 7 ELSE 0

Fields == UNION {[1..n -> Chars] : n \in 1..MaxFieldLen}

\* A well-formed (unsigned decimal) number: digits only, at least one.
WellFormed(s) == Len(s) > 0 /\ \A i \in 1..Len(s) : s[i] \in Digits

RECURSIVE DigitRun(_, _)
DigitRun(s, i) ==
    IF i > Len(s) \/ s[i] \notin Digits THEN 0 ELSE 1 + DigitRun(s, i + 1)

RECURSIVE DigitsValue(_, _, _)
DigitsValue(s, i, n) ==
    IF n = 0 THEN 0 ELSE DigitsValue(s, i, n - 1) * 10 + DigitVal(s[i + n - 1])

RECURSIVE SkipWs(_, _)
SkipWs(s, i) ==
    IF i <= Len(s) /\ s[i] \in Whitespace THEN SkipWs(s, i + 1) ELSE i

RECURSIVE Find(_, _, _)
\* std::string::find(ch, from) with 1-based positions; 0 is npos.
Find(s, ch, from) ==
    IF from > Len(s) THEN 0
    ELSE IF s[from] = ch THEN from ELSE Find(s, ch, from + 1)

\* std::from_chars on the whole text s: the longest leading digit run is
\* converted; ptr (not inspected by any caller) is where it stopped.
from_chars(s) ==
    LET n == DigitRun(s, 1) IN
    IF n = 0 THEN [ec |-> "invalid_argument", value |-> 0, ptr |-> 1]
    ELSE [ec |-> "ok", value |-> DigitsValue(s, 1, n), ptr |-> n + 1]

\* std::stoi / std::stoll on s: leading whitespace skipped, the longest
\* leading digit run converted, std::invalid_argument thrown when there is none.
stoi(s) ==
    LET j == SkipWs(s, 1)
        n == DigitRun(s, j) IN
    IF n = 0 THEN [threw |-> TRUE, value |-> 0]
    ELSE [threw |-> FALSE, value |-> DigitsValue(s, j, n)]

\* operator>>(int&) on a stream holding s with the get position at i:
\* whitespace skipped, digits converted; on failure the target is set to 0 and
\* failbit is raised; eof tells whether the end of the stream was hit.
ScanInt(s, i) ==
    LET j == SkipWs(s, i)
        n == DigitRun(s, j) IN
    IF n = 0 THEN [ok |-> FALSE, value |-> 0, pos |-> j, eof |-> j > Len(s)]
    ELSE [ok |-> TRUE, value |-> DigitsValue(s, j, n), pos |-> j + n,
          eof |-> j + n > Len(s)]

\* operator>>(char&): whitespace skipped, one character consumed whatever it is.
ScanChar(s, i) ==
    LET j == SkipWs(s, i) IN
    IF j > Len(s) THEN [ok |-> FALSE, pos |-> j] ELSE [ok |-> TRUE, pos |-> j + 1]

\* The values an int that was never written may be read as.
Indeterminate == {0, 7}

(***************************************************************************)
(* The thirteen programs, their files and the order of main.               *)
(***************************************************************************)
Days == {"2024_1", "2025_1", "2025_2", "2025_3", "2025_4", "2025_5", "2025_6",
         "2025_7", "2025_8", "2025_9", "2025_10", "2025_11", "2025_12"}

Comp(f, p) == [file |-> f, part |-> p]

\* The four computations most programs run, in the order main runs them.
FourParts == <<Comp("input_example.txt", 1), Comp("input_example.txt", 2),
               Comp("input.txt", 1), Comp("input.txt", 2)>>

\* The part computations main of each program calls, in program order.
Plan(d) ==
    CASE d = "2025_10" -> <<Comp("input_example.txt", 1), Comp("input_example.txt", 2),
                            Comp("input.txt", 1)>>
      [] d = "2025_11" -> <<Comp("input_example_part1.txt", 1),
                            Comp("input_example_part2.txt", 2),
                            Comp("input.txt", 1), Comp("input.txt", 2)>>
      [] d = "2025_12" -> <<Comp("input_example.txt", 1), Comp("input.txt", 1)>>
      [] OTHER -> FourParts

FilesOf(d) == {Plan(d)[k].file : k \in 1..Len(Plan(d))}

\* Programs whose reader converts text to a number.
NumericDays == Days \ {"2025_3", "2025_4", "2025_7", "2025_11"}

Ok(data) == [raised |-> FALSE, msg |-> "", data |-> data]
Raise(msg) == [raised |-> TRUE, msg |-> msg, data |-> <<>>]

(***************************************************************************)
(* What each read_input does with the text of a readable file.  The file   *)
(* holds one record of the program's format, well formed except for the    *)
(* one numeric field under study.                                          *)
(***************************************************************************)

\* 2024 Day 1: "<field> 7\n", read by  while (file >> left >> right).
RECURSIVE ReadColumns(_, _, _)
ReadColumns(s, i, data) ==
    LET a == ScanInt(s, i) IN
    IF ~a.ok THEN [eof |-> a.eof, data |-> data]
    ELSE LET b == ScanInt(s, a.pos) IN
         IF ~b.ok THEN [eof |-> b.eof, data |-> data]
         ELSE ReadColumns(s, b.pos, data \o <<a.value, b.value>>)

parse_2024_day1(field) ==
    LET r == ReadColumns(field \o <<" ", "7", "\n">>, 1, <<>>) IN
    IF ~r.eof THEN {Raise("Error reading file: invalid format")}
    ELSE {Ok(r.data)}

\* 2025 Day 1: the token "R<field>".
parse_2025_day1(field) ==
    LET line == <<"R">> \o field
        fc == from_chars(SubSeq(line, 2, Len(line))) IN
    IF Len(line) < 2 THEN {Raise("Invalid instruction format")}
    ELSE IF fc.ec = "invalid_argument" THEN {Raise("Invalid number format")}
    ELSE IF fc.value > 2147483647 THEN {Raise("Number out of range")}
    ELSE IF fc.value < 0 THEN {Raise("Negative steps value")}
    ELSE IF line[1] \notin {"R", "L"} THEN {Raise("Invalid direction")}
    ELSE {Ok(<<fc.value>>)}

\* 2025 Day 2: Range::from_string on "<field>-77".
Range_from_string(range_str) ==
    LET dash_pos == Find(range_str, "-", 2) IN
    IF dash_pos = 0 THEN [has |-> FALSE, start |-> 0, end |-> 0]
    ELSE LET s1 == from_chars(SubSeq(range_str, 1, dash_pos - 1))
             s2 == from_chars(SubSeq(range_str, dash_pos + 1, Len(range_str))) IN
         IF s1.ec # "ok" \/ s2.ec # "ok" \/ s1.value > s2.value
         THEN [has |-> FALSE, start |-> 0, end |-> 0]
         ELSE [has |-> TRUE, start |-> s1.value, end |-> s2.value]

parse_2025_day2(field) ==
    LET range == Range_from_string(field \o <<"-", "7", "7">>) IN
    IF range.has THEN {Ok(<<range.start, range.end>>)} ELSE {Ok(<<>>)}

\* 2025 Day 5 (an available id), Day 6 part 1 (a worksheet segment),
\* Day 10 (a button index) and Day 12 (a region width): std::stoi / std::stoll
\* of the field.
parse_stoi(field) ==
    LET r == stoi(field) IN
    IF r.threw THEN {Raise("stoi")} ELSE {Ok(<<r.value>>)}

\* 2025 Day 6 part 2: the worksheet is read column by column from the right,
\* each column of the field is converted on its own.
RECURSIVE ReadVertical(_, _, _)
ReadVertical(field, c, numbers) ==
    IF c < 1 THEN Ok(numbers)
    ELSE LET r == stoi(<<field[c]>>) IN
         IF r.threw THEN Raise("stoll")
         ELSE ReadVertical(field, c - 1, Append(numbers, r.value))

parse_2025_day6_vertical(field) == {ReadVertical(field, Len(field), <<>>)}

\* 2025 Day 8 and Day 9:  ss >> x >> comma >> y [>> comma >> z]  into
\* variables that were never initialised; nothing tests the stream.
\* Each entry tells whether the extraction wrote the coordinate.
RECURSIVE ExtractCoords(_, _, _, _, _)
ExtractCoords(s, i, k, n, failed) ==
    IF k > n THEN <<>>
    ELSE IF failed THEN <<[set |-> FALSE, v |-> 0]>> \o ExtractCoords(s, i, k + 1, n, TRUE)
    ELSE LET c == IF k = 1 THEN [ok |-> TRUE, pos |-> i] ELSE ScanChar(s, i) IN
         IF ~c.ok THEN <<[set |-> FALSE, v |-> 0]>> \o ExtractCoords(s, i, k + 1, n, TRUE)
         ELSE LET r == ScanInt(s, c.pos) IN
              <<[set |-> TRUE, v |-> r.value]>>
                  \o ExtractCoords(s, r.pos, k + 1, n, ~r.ok)

\* The points the push_back can store: a coordinate never written is read
\* uninitialised.
PointsOf(coords) ==
    {p \in [1..Len(coords) -> Indeterminate \cup {coords[k].v : k \in 1..Len(coords)}] :
        \A k \in 1..Len(coords) :
            IF coords[k].set THEN p[k] = coords[k].v ELSE p[k] \in Indeterminate}

parse_2025_day8(field) ==
    {Ok(p) : p \in PointsOf(ExtractCoords(field \o <<",", "7", ",", "7">>, 1, 1, 3, FALSE))}

parse_2025_day9(field) ==
    {Ok(p) : p \in PointsOf(ExtractCoords(field \o <<",", "7">>, 1, 1, 2, FALSE))}

\* The text of the file as the program's reader parses it.
ParseContent(d, part, field) ==
    CASE d = "2024_1" -> parse_2024_day1(field)
      [] d = "2025_1" -> parse_2025_day1(field)
      [] d = "2025_2" -> parse_2025_day2(field)
      [] d \in {"2025_5", "2025_10", "2025_12"} -> parse_stoi(field)
      [] d = "2025_6" -> IF part = 1 THEN parse_stoi(field)
                         ELSE parse_2025_day6_vertical(field)
      [] d = "2025_8" -> parse_2025_day8(field)
      [] d = "2025_9" -> parse_2025_day9(field)
      [] OTHER -> {Ok(<<>>)}

\* read_input without the two file checks: a missing file reads as empty text.
read_input_unchecked(d, part, f) == ParseContent(d, part, f.field)

\* read_input: the two file checks every reader starts with, then the parse.
read_input(d, part, f) ==
    IF f.status = "missing" THEN {Raise("File does not exist")}
    ELSE IF f.status = "unopenable" THEN {Raise("Cannot open file")}
    ELSE ParseContent(d, part, f.field)

\* One part function (advent_of_code_<year>_day<n>_part<p>): the read, then the
\* computation.  Only 2025 Day 10 raises from the computation, when its solver
\* returns -1 for a machine of the file.
part_computation(d, part, f) ==
    {IF ~o.raised /\ d = "2025_10" /\ part \in f.unsolved
     THEN Raise("No solution found for machine") ELSE o :
        o \in read_input(d, part, f)}

FieldsFor(d) == IF d \in NumericDays THEN Fields ELSE {<<"7">>}

FileStates(d) ==
    {[status |-> st, field |-> <<>>, unsolved |-> {}] : st \in {"missing", "unopenable"}}
    \cup {[status |-> "readable", field |-> fl, unsolved |-> u] :
            fl \in FieldsFor(d),
            u \in IF d = "2025_10" THEN SUBSET {1, 2} ELSE {{}}}

MainInit ==
    /\ day \in Days
    /\ files \in [FilesOf(day) -> FileStates(day)]
    /\ nextComp = 1
    /\ started = <<>>
    /\ stdout = <<>>
    /\ stderr = <<>>
    /\ mainPc = "running"
    /\ exitStatus = 0

\* main losing the answer of a part function that returned.
PartReturnsQuiet ==
    /\ mainPc = "running"
    /\ nextComp <= Len(Plan(day))
    /\ LET c == Plan(day)[nextComp] IN
       \E out \in part_computation(day, c.part, files[c.file]) : ~out.raised
    /\ started' = Append(started, nextComp)
    /\ nextComp' = nextComp + 1
    /\ UNCHANGED <<day, files, stdout, stderr, mainPc, exitStatus>>

\* main: the next part function returns and its answer line is printed.
PartReturns ==
    /\ mainPc = "running"
    /\ nextComp <= Len(Plan(day))
    /\ LET c == Plan(day)[nextComp] IN
       \E out \in part_computation(day, c.part, files[c.file]) :
          /\ ~out.raised
          /\ stdout' = Append(stdout, [comp |-> nextComp, data |-> out.data])
    /\ started' = Append(started, nextComp)
    /\ nextComp' = nextComp + 1
    /\ UNCHANGED <<day, files, stderr, mainPc, exitStatus>>

\* main with a catch block around each part function: the message is printed
\* and the next part function is called.
PartThrowsResumes ==
    /\ mainPc = "running"
    /\ nextComp <= Len(Plan(day))
    /\ LET c == Plan(day)[nextComp] IN
       \E out \in part_computation(day, c.part, files[c.file]) :
          /\ out.raised
          /\ stderr' = Append(stderr, out.msg)
    /\ started' = Append(started, nextComp)
    /\ nextComp' = nextComp + 1
    /\ UNCHANGED <<day, files, stdout, mainPc, exitStatus>>

\* main: the next part function throws; the catch block prints the message
\* and returns 1.
PartThrows ==
    /\ mainPc = "running"
    /\ nextComp <= Len(Plan(day))
    /\ LET c == Plan(day)[nextComp] IN
       \E out \in part_computation(day, c.part, files[c.file]) :
          /\ out.raised
          /\ stderr' = Append(stderr, out.msg)
    /\ started' = Append(started, nextComp)
    /\ mainPc' = "exited"
    /\ exitStatus' = 1
    /\ UNCHANGED <<day, files, stdout, nextComp>>

\* main: every part function returned; return 0.
MainReturn ==
    /\ mainPc = "running"
    /\ nextComp > Len(Plan(day))
    /\ mainPc' = "exited"
    /\ exitStatus' = 0
    /\ UNCHANGED <<day, files, stdout, stderr, nextComp, started>>

(***************************************************************************)
(* 2025 Day 1: the dial.                                                   *)
(***************************************************************************)
INT_MAX == 2147483647
kDialSize == 100
kStartingPosition == 50

\* Step counts read_input can return: any int from 0 to INT_MAX.
StepValues == {0, 1, 49, 50, 51, 99, 100, 101, 150, 200, INT_MAX}

Instruction == [direction : {"R", "L"}, steps : StepValues]

InstructionLists == UNION {[1..n -> Instruction] : n \in 0..MaxInstr}

\* C++ integer division and remainder (truncation toward zero), b > 0.
CDiv(a, b) == IF a >= 0 \/ a % b = 0 THEN a \div b ELSE (a \div b) + 1
CMod(a, b) == a - CDiv(a, b) * b

\* a + b and a - b in a 32-bit int: whether the exact result leaves the
\* range, and the two's-complement result.  (Every intermediate value stays
\* within 32 bits.)
AddOverflows(a, b) ==
    \/ b > 0 /\ a > INT_MAX - b
    \/ b < 0 /\ a < (-INT_MAX - 1) - b
AddWrapped(a, b) ==
    IF b > 0 /\ a > INT_MAX - b THEN ((a - INT_MAX) - 1) + ((b - INT_MAX) - 1)
    ELSE IF b < 0 /\ a < (-INT_MAX - 1) - b THEN ((a + INT_MAX) + 1) + ((b + INT_MAX) + 1)
    ELSE a + b
SubOverflows(a, b) ==
    \/ b > 0 /\ a < (-INT_MAX - 1) + b
    \/ b < 0 /\ a > INT_MAX + b
SubWrapped(a, b) ==
    IF b > 0 /\ a < (-INT_MAX - 1) + b THEN ((a + INT_MAX) + 1) + ((INT_MAX - b) + 1)
    ELSE IF b < 0 /\ a > INT_MAX + b THEN ((a - INT_MAX) - 1) - ((b + INT_MAX) + 1)
    ELSE a - b

\* part 1's loop body turning right whatever the direction.
Part1BodyRightOnly(pos, ins) ==
    (pos + (ins.steps % kDialSize)) % kDialSize

\* One iteration of part 1's loop (unsigned arithmetic).
Part1Body(pos, ins) ==
    LET effective_steps == ins.steps % kDialSize IN
    IF ins.direction = "R" THEN (pos + effective_steps) % kDialSize
    ELSE (pos + kDialSize - effective_steps) % kDialSize

\* One iteration of part 2's loop: the new position, the zero hits counted and
\* whether a signed operation overflowed (undefined behaviour; the values
\* given are those of wrapping arithmetic).
Part2Right(old_position, steps) ==
    LET end_pos == AddWrapped(old_position, steps)
        first_zero == (CDiv(old_position, kDialSize) + 1) * kDialSize
        zero_hits == IF first_zero <= end_pos
                     THEN CDiv(end_pos - first_zero, kDialSize) + 1 ELSE 0 IN
    [position |-> CMod(end_pos, kDialSize), zero_hits |-> zero_hits,
     overflow |-> AddOverflows(old_position, steps)]

Part2Left(old_position, steps) ==
    LET end_pos_raw == SubWrapped(old_position, steps)
        fz == CDiv(old_position, kDialSize) * kDialSize
        first_zero_in_range == IF fz = old_position THEN fz - kDialSize ELSE fz
        zero_hits == IF first_zero_in_range >= end_pos_raw
                     THEN CDiv(SubWrapped(first_zero_in_range, end_pos_raw), kDialSize) + 1
                     ELSE 0
        m == CMod(end_pos_raw, kDialSize)
        end_pos_mod == IF m < 0 THEN m + kDialSize ELSE m IN
    [position |-> end_pos_mod, zero_hits |-> zero_hits,
     overflow |-> SubOverflows(old_position, steps)
                  \/ (first_zero_in_range >= end_pos_raw
                      /\ SubOverflows(first_zero_in_range, end_pos_raw))]

Part2Body(pos, ins) ==
    IF ins.direction = "R" THEN Part2Right(pos, ins.steps)
    ELSE Part2Left(pos, ins.steps)

DialInit ==
    /\ instructions \in InstructionLists
    /\ dialPc = "part1"
    /\ dialIdx = 0
    /\ position = kStartingPosition
    /\ zero_counter = 0
    /\ positions1 = <<>>
    /\ result1 = 0
    /\ result2 = 0
    /\ wrapped = FALSE

\* advent_of_code_2025_day1_part1: one iteration of the loop.
Part1Iter ==
    /\ dialPc = "part1"
    /\ dialIdx < Len(instructions)
    /\ LET p == Part1Body(position, instructions[dialIdx + 1]) IN
       /\ position' = p
       /\ zero_counter' = IF p = 0 THEN zero_counter + 1 ELSE zero_counter
       /\ positions1' = Append(positions1, p)
    /\ dialIdx' = dialIdx + 1
    /\ UNCHANGED <<instructions, dialPc, result1, result2, wrapped>>

\* part 1 returns zero_counter; main then calls part 2 on the same file.
Part1Return ==
    /\ dialPc = "part1"
    /\ dialIdx = Len(instructions)
    /\ result1' = zero_counter
    /\ dialPc' = "part2"
    /\ dialIdx' = 0
    /\ position' = kStartingPosition
    /\ zero_counter' = 0
    /\ UNCHANGED <<instructions, positions1, result2, wrapped>>

\* advent_of_code_2025_day1_part2: one iteration of the loop.  When a signed
\* operation overflows the build either wraps (here) or traps (Part2Trap).
Part2Iter ==
    /\ dialPc = "part2"
    /\ dialIdx < Len(instructions)
    /\ LET r == Part2Body(position, instructions[dialIdx + 1]) IN
       /\ position' = r.position
       /\ zero_counter' = zero_counter + r.zero_hits
       /\ wrapped' = (wrapped \/ r.overflow)
    /\ dialIdx' = dialIdx + 1
    /\ UNCHANGED <<instructions, dialPc, positions1, result1, result2>>

\* The signed overflow of this iteration aborts the program (a trapping build).
Part2Trap ==
    /\ dialPc = "part2"
    /\ dialIdx < Len(instructions)
    /\ Part2Body(position, instructions[dialIdx + 1]).overflow
    /\ dialPc' = "trapped"
    /\ wrapped' = TRUE
    /\ UNCHANGED <<instructions, dialIdx, position, zero_counter, positions1,
                   result1, result2>>

Part2Return ==
    /\ dialPc = "part2"
    /\ dialIdx = Len(instructions)
    /\ result2' = zero_counter
    /\ dialPc' = "done"
    /\ UNCHANGED <<instructions, dialIdx, position, zero_counter, positions1,
                   result1, wrapped>>

(***************************************************************************)
(* 2025 Day 10: the machines.  A machine has one indicator light and one   *)
(* joltage counter per position and a list of buttons; a button is its row *)
(* of the effect matrix (1 where it acts).  Rows, columns and buttons are  *)
(* numbered from 1 here, from 0 in the source.                             *)
(***************************************************************************)
Positions == {1, 2}                \* lights / counters of a machine
JoltageValues == {0, 1, 2}         \* joltage requirements in an input line

Bit == {0, 1}
Button == [Positions -> Bit]
ButtonLists == UNION {[1..n -> Button] : n \in 0..MaxButtons}

\* One input line as parse_line and parse_line_part2 read it: the light
\* diagram, the buttons and the joltage requirements.  (The diagram of the
\* line is taken to be the parity of its joltage requirements.)
MachineLines ==
    {[target |-> [i \in Positions |-> j[i] % 2], joltageReq |-> j, buttons |-> bs] :
        j \in [Positions -> JoltageValues], bs \in ButtonLists}

MachineFiles == UNION {[1..n -> MachineLines] : n \in 0..MaxMachines}

RECURSIVE SumTo(_, _)
\* f[1] + ... + f[n]
SumTo(f, n) == IF n = 0 THEN 0 ELSE SumTo(f, n - 1) + f[n]

SetMin(S) == CHOOSE x \in S : \A y \in S : x <= y
SetMax(S) == CHOOSE x \in S : \A y \in S : x >= y

Xor(a, b) == (a + b) % 2

RECURSIVE Eliminate(_, _, _, _)
\* solveGF2, the Gaussian elimination loop from column col on.  st holds aug,
\* pivot (the number of pivots found), pivotCol (0 where the source has -1)
\* and the set of pivot columns.
Eliminate(st, col, rows, cols) ==
    IF col > cols \/ st.pivot >= rows THEN st
    ELSE LET candidates == {row \in (st.pivot + 1)..rows : st.aug[row][col] = 1} IN
         IF candidates = {} THEN Eliminate(st, col + 1, rows, cols)
         ELSE LET pivotRow == SetMin(candidates)
                  p == st.pivot + 1
                  swapped == [st.aug EXCEPT ![p] = st.aug[pivotRow],
                                            ![pivotRow] = st.aug[p]]
                  eliminated ==
                      [row \in 1..rows |->
                          IF row # p /\ swapped[row][col] = 1
                          THEN [c \in 1..(cols + 1) |-> Xor(swapped[row][c], swapped[p][c])]
                          ELSE swapped[row]] IN
              Eliminate([aug |-> eliminated, pivot |-> p,
                         pivotCol |-> [st.pivotCol EXCEPT ![p] = col],
                         isPivotCol |-> st.isPivotCol \cup {col}],
                        col + 1, rows, cols)

RECURSIVE XorRow(_, _, _, _)
\* val ^= aug[row][c] * solution[c]  for c = from .. cols
XorRow(augRow, solution, from, cols) ==
    IF from > cols THEN 0
    ELSE Xor(augRow[from] * solution[from], XorRow(augRow, solution, from + 1, cols))

RECURSIVE BackSubstitute(_, _, _, _)
\* solveGF2, back substitution from pivot row `row` up to the first row.
BackSubstitute(st, solution, row, cols) ==
    IF row < 1 THEN solution
    ELSE LET col == st.pivotCol[row] IN
         IF col = 0 THEN BackSubstitute(st, solution, row - 1, cols)
         ELSE LET val == Xor(st.aug[row][cols + 1],
                             XorRow(st.aug[row], solution, col + 1, cols)) IN
              BackSubstitute(st, [solution EXCEPT ![col] = val], row - 1, cols)

\* solveGF2(matrix, target): matrix is the button list.
solveGF2(matrix, target) ==
    LET rows == Cardinality(DOMAIN target)
        cols == Len(matrix)
        aug == [i \in 1..rows |->
                   [c \in 1..(cols + 1) |-> IF c <= cols THEN matrix[c][i] ELSE target[i]]]
        st == Eliminate([aug |-> aug, pivot |-> 0, pivotCol |-> [r \in 1..rows |-> 0],
                         isPivotCol |-> {}], 1, rows, cols)
        freeVars == (1..cols) \ st.isPivotCol
        count(mask) ==
            LET solution == BackSubstitute(st, [c \in 1..cols |-> IF c \in mask THEN 1 ELSE 0],
                                           st.pivot, cols) IN
            SumTo(solution, cols) IN
    IF cols = 0 THEN -1
    ELSE IF \E row \in (st.pivot + 1)..rows : st.aug[row][cols + 1] = 1 THEN -1
    ELSE SetMin({cols + 1} \cup {count(mask) : mask \in SUBSET freeVars})

solveMachine(machine) == solveGF2(machine.buttons, machine.target)

\* bestCost < LLONG_MAX.  LLONG_MAX (2^63 - 1) is beyond the integers of the
\* model; every cost the search holds is bounded by the sum of the
\* requirements and lies below it.
BelowLLONG_MAX(cost) == cost \in Int

RECURSIVE backtrackOptimized(_, _, _, _, _)
RECURSIVE TryValues(_, _, _, _, _, _)

\* backtrackOptimized, the loop  for (val = maxTries; val >= 0; val--)  from
\* val on: the value of bestCost (passed by reference) when the loop ends.
TryValues(A, remaining, buttonIdx, currentCost, bestCost, val) ==
    IF val < 0 THEN bestCost
    ELSE LET newRemaining == [i \in DOMAIN remaining |->
                                 IF A[buttonIdx][i] = 1 THEN remaining[i] - val
                                 ELSE remaining[i]]
             valid == \A i \in DOMAIN remaining :
                          A[buttonIdx][i] = 1 => remaining[i] - val >= 0
             after == IF valid
                      THEN backtrackOptimized(A, newRemaining, buttonIdx + 1,
                                              currentCost + val, bestCost).bestCost
                      ELSE bestCost IN
         TryValues(A, remaining, buttonIdx, currentCost, after, val - 1)

\* backtrackOptimized: the value returned and bestCost as the call leaves it.
backtrackOptimized(A, remaining, buttonIdx, currentCost, bestCost) ==
    IF currentCost >= bestCost THEN [ret |-> FALSE, bestCost |-> bestCost]
    ELSE IF buttonIdx = Len(A) + 1
    THEN IF \E i \in DOMAIN remaining : remaining[i] # 0
         THEN [ret |-> FALSE, bestCost |-> bestCost]
         ELSE [ret |-> TRUE, bestCost |-> currentCost]
    ELSE LET affected == {i \in DOMAIN remaining :
                             A[buttonIdx][i] = 1 /\ remaining[i] > 0} IN
         IF affected = {}
         THEN backtrackOptimized(A, remaining, buttonIdx + 1, currentCost, bestCost)
         ELSE LET maxNeeded == SetMax({remaining[i] : i \in affected})
                  maxTries == SetMin({maxNeeded, bestCost - currentCost - 1})
                  best == TryValues(A, remaining, buttonIdx, currentCost, bestCost,
                                    maxTries) IN
              [ret |-> BelowLLONG_MAX(best), bestCost |-> best]

\* solveIntegerLinear(A, b)
solveIntegerLinear(A, b) ==
    LET numCounters == Cardinality(DOMAIN b)
        r == backtrackOptimized(A, b, 1, 0, SumTo(b, numCounters)) IN
    IF Len(A) = 0 THEN -1
    ELSE IF r.ret THEN r.bestCost ELSE -1

MachineInit ==
    /\ machines \in MachineFiles
    /\ machinePc = "part1"
    /\ machineIdx = 0
    /\ totalPresses = 0
    /\ presses = 0
    /\ total1 = 0
    /\ total2 = 0
    /\ failedPart = 0
    /\ failedMachine = 0

solveJoltage(machine) == solveIntegerLinear(machine.buttons, machine.joltageReq)

\* advent_of_code_2025_day10_part1, one iteration of the loop: the machine is
\* solved and its presses are added to the total.
Day10Part1Iter ==
    /\ machinePc = "part1"
    /\ machineIdx < Len(machines)
    /\ solveMachine(machines[machineIdx + 1]) # -1
    /\ presses' = solveMachine(machines[machineIdx + 1])
    /\ totalPresses' = totalPresses + presses'
    /\ machineIdx' = machineIdx + 1
    /\ UNCHANGED <<machines, machinePc, total1, total2, failedPart, failedMachine>>

\* advent_of_code_2025_day10_part1, one iteration of the loop: the solver
\* returns -1 and the function throws, naming machine i + 1.
Day10Part1Throw ==
    /\ machinePc = "part1"
    /\ machineIdx < Len(machines)
    /\ solveMachine(machines[machineIdx + 1]) = -1
    /\ presses' = -1
    /\ failedPart' = 1
    /\ failedMachine' = machineIdx + 1
    /\ machinePc' = "raised"
    /\ UNCHANGED <<machines, machineIdx, totalPresses, total1, total2>>

\* advent_of_code_2025_day10_part1 returns totalPresses; main then calls part 2
\* on the same file.
Day10Part1Return ==
    /\ machinePc = "part1"
    /\ machineIdx = Len(machines)
    /\ total1' = totalPresses
    /\ machinePc' = "part2"
    /\ machineIdx' = 0
    /\ totalPresses' = 0
    /\ UNCHANGED <<machines, presses, total2, failedPart, failedMachine>>

\* advent_of_code_2025_day10_part2, one iteration of the loop.
Day10Part2Iter ==
    /\ machinePc = "part2"
    /\ machineIdx < Len(machines)
    /\ solveJoltage(machines[machineIdx + 1]) # -1
    /\ presses' = solveJoltage(machines[machineIdx + 1])
    /\ totalPresses' = totalPresses + presses'
    /\ machineIdx' = machineIdx + 1
    /\ UNCHANGED <<machines, machinePc, total1, total2, failedPart, failedMachine>>

\* advent_of_code_2025_day10_part2, one iteration of the loop: the solver
\* returns -1 and the function throws, naming machine i + 1.
Day10Part2Throw ==
    /\ machinePc = "part2"
    /\ machineIdx < Len(machines)
    /\ solveJoltage(machines[machineIdx + 1]) = -1
    /\ presses' = -1
    /\ failedPart' = 2
    /\ failedMachine' = machineIdx + 1
    /\ machinePc' = "raised"
    /\ UNCHANGED <<machines, machineIdx, totalPresses, total1, total2>>

\* advent_of_code_2025_day10_part2 returns totalPresses.
Day10Part2Return ==
    /\ machinePc = "part2"
    /\ machineIdx = Len(machines)
    /\ total2' = totalPresses
    /\ machinePc' = "done"
    /\ UNCHANGED <<machines, machineIdx, totalPresses, presses, total1, failedPart,
                   failedMachine>>

(***************************************************************************)
(* 2025 Day 11: the network.  The graph is the map read_input returns: a    *)
(* function from the devices that have a line in the file to their output  *)
(* lists.  Only graphs without a cycle are read: in each of them the       *)
(* devices can be ordered so that every output comes later.                *)
(***************************************************************************)
Orders == {<<"svr", "dac", "fft", "out">>, <<"svr", "fft", "dac", "out">>,
           <<"you", "dac", "fft", "out">>}

Nodes == {"you", "svr", "dac", "fft", "out"}

EmptyMap == [x \in {} |-> 0]

OutputLists(later) == UNION {[1..n -> later] : n \in 0..MaxOutputs}

RECURSIVE GraphsOver(_, _)
\* The graphs over the devices o[i], o[i+1], ...: each device has no line, or
\* a line listing up to MaxOutputs later devices (repetitions allowed).
GraphsOver(o, i) ==
    IF i > Len(o) THEN {EmptyMap}
    ELSE LET later == {o[j] : j \in (i + 1)..Len(o)}
             rest == GraphsOver(o, i + 1) IN
         rest \cup {(o[i] :> outs) @@ g : outs \in OutputLists(later), g \in rest}

Graphs == UNION {GraphsOver(o, 1) : o \in Orders}

RECURSIVE count_paths(_, _, _)
RECURSIVE count_paths_loop(_, _, _, _)

\* count_paths, the loop over graph.at(current) from output k on.
count_paths_loop(current, target, g, k) ==
    IF k > Len(g[current]) THEN 0
    ELSE count_paths(g[current][k], target, g) + count_paths_loop(current, target, g, k + 1)

\* count_paths with a loop that starts at the second output.
count_paths_skips_first(current, target, g) ==
    IF current = target THEN 1
    ELSE IF current \notin DOMAIN g THEN 0
    ELSE count_paths_loop(current, target, g, 2)

count_paths(current, target, g) ==
    IF current = target THEN 1
    ELSE IF current \notin DOMAIN g THEN 0
    ELSE count_paths_loop(current, target, g, 1)

RECURSIVE count_paths_with_nodes(_, _, _, _, _, _)
RECURSIVE count_paths_with_nodes_loop(_, _, _, _, _, _, _, _)

\* count_paths_with_nodes, the loop over graph.at(current) from output k on:
\* totalPaths and the memo (passed by reference) when the loop ends.
count_paths_with_nodes_loop(current, target, visitedDac, visitedFft, g, m, k, totalPaths) ==
    IF k > Len(g[current]) THEN [val |-> totalPaths, memo |-> m]
    ELSE LET next == g[current][k]
             newVisitedDac == visitedDac \/ next = "dac"
             newVisitedFft == visitedFft \/ next = "fft"
             r == count_paths_with_nodes(next, target, newVisitedDac, newVisitedFft, g, m) IN
         count_paths_with_nodes_loop(current, target, visitedDac, visitedFft, g, r.memo,
                                     k + 1, totalPaths + r.val)

\* count_paths_with_nodes with a memo keyed by the device alone.
count_paths_with_nodes_by_device(current, target, visitedDac, visitedFft, g, m) ==
    LET key == <<current, FALSE, FALSE>> IN
    IF current = target
    THEN [val |-> IF visitedDac /\ visitedFft THEN 1 ELSE 0, memo |-> m]
    ELSE IF key \in DOMAIN m THEN [val |-> m[key], memo |-> m]
    ELSE IF current \notin DOMAIN g THEN [val |-> 0, memo |-> (key :> 0) @@ m]
    ELSE LET r == count_paths_with_nodes_loop(current, target, visitedDac, visitedFft,
                                              g, m, 1, 0) IN
         [val |-> r.val, memo |-> (key :> r.val) @@ r.memo]

\* count_paths_with_nodes: the value returned and the memo as the call leaves it.
count_paths_with_nodes(current, target, visitedDac, visitedFft, g, m) ==
    LET key == <<current, visitedDac, visitedFft>> IN
    IF current = target
    THEN [val |-> IF visitedDac /\ visitedFft THEN 1 ELSE 0, memo |-> m]
    ELSE IF key \in DOMAIN m THEN [val |-> m[key], memo |-> m]
    ELSE IF current \notin DOMAIN g THEN [val |-> 0, memo |-> (key :> 0) @@ m]
    ELSE LET r == count_paths_with_nodes_loop(current, target, visitedDac, visitedFft,
                                              g, m, 1, 0) IN
         [val |-> r.val, memo |-> (key :> r.val) @@ r.memo]

NetInit ==
    /\ graph \in Graphs
    /\ netPc = "part1"
    /\ pathCount = 0
    /\ totalValidPaths = 0
    /\ memo = EmptyMap

\* advent_of_code_2025_day11_part1
Day11Part1 ==
    /\ netPc = "part1"
    /\ pathCount' = count_paths("you", "out", graph)
    /\ netPc' = "part2"
    /\ UNCHANGED <<graph, totalValidPaths, memo>>

\* advent_of_code_2025_day11_part2
Day11Part2 ==
    /\ netPc = "part2"
    /\ LET startVisitedDac == "svr" = "dac"
           startVisitedFft == "svr" = "fft"
           r == count_paths_with_nodes("svr", "out", startVisitedDac, startVisitedFft,
                                       graph, EmptyMap) IN
       /\ totalValidPaths' = r.val
       /\ memo' = r.memo
    /\ netPc' = "done"
    /\ UNCHANGED <<graph, pathCount>>

(***************************************************************************)
(* 2025 Day 12: fitting presents into regions (src/2025/Day12/main.cpp).   *)
(* A pattern is a list of rows, a row a list of '#' and '.' characters;    *)
(* rows and columns are numbered from 0 in the code and from 1 in the      *)
(* sequences here.                                                         *)
(***************************************************************************)
\* The patterns the shape blocks of an input file are drawn from: a single
\* cell, a domino, a single cell followed by an empty column, an L of three
\* cells and two cells on a diagonal.
ShapePatterns ==
    { << <<"#">> >>,
      << <<"#", "#">> >>,
      << <<"#", ".">> >>,
      << <<"#", "#">>, <<"#", ".">> >>,
      << <<"#", ".">>, <<".", "#">> >> }

Widths == {1, 3}         \* region widths of an input file
Heights == {1, 2}        \* region heights of an input file
CountValues == {0, 1, 2} \* requested counts of a region line

\* Shape::width and Shape::height
width(shape) == IF Len(shape) = 0 THEN 0 ELSE Len(shape[1])
height(shape) == Len(shape)

\* One rotation step of generate_transformations:
\* rotated.pattern[j][h - 1 - i] = current.pattern[i][j].
Rotate(current) ==
    LET h == height(current)
        w == width(current) IN
    [j \in 1..w |-> [k \in 1..h |-> current[h + 1 - k][j]]]

\* The horizontal flip of generate_transformations: every row reversed.
Flip(shape) ==
    [i \in 1..Len(shape) |-> [j \in 1..Len(shape[i]) |-> shape[i][Len(shape[i]) + 1 - j]]]

\* The lambda addIfUnique folded over the candidates in the order the code
\* offers them.
RECURSIVE addIfUnique(_, _, _)
addIfUnique(result, candidates, i) ==
    IF i > Len(candidates) THEN result
    ELSE IF \E k \in 1..Len(result) : result[k] = candidates[i]
         THEN addIfUnique(result, candidates, i + 1)
         ELSE addIfUnique(Append(result, candidates[i]), candidates, i + 1)

generate_transformations(shape) ==
    LET r1 == Rotate(shape)
        r2 == Rotate(r1)
        r3 == Rotate(r2)
        flipped == Flip(shape)
        f1 == Rotate(flipped)
        f2 == Rotate(f1)
        f3 == Rotate(f2) IN
    addIfUnique(<<>>, <<shape, r1, r2, r3, flipped, f1, f2, f3>>, 1)

\* The marker place_shape writes for a present: 'A' + presentIdx.
Markers == <<"A", "B", "C">>

can_place(grid, shape, row, col) ==
    /\ ~(row + height(shape) > Len(grid) \/ col + width(shape) > Len(grid[1]))
    /\ \A i \in 0..(height(shape) - 1), j \in 0..(width(shape) - 1) :
          shape[i + 1][j + 1] = "#" => grid[row + i + 1][col + j + 1] = "."

place_shape(grid, shape, row, col, marker) ==
    [r \in 1..Len(grid) |->
        [c \in 1..Len(grid[r]) |->
            IF /\ r - 1 - row \in 0..(height(shape) - 1)
               /\ c - 1 - col \in 0..(width(shape) - 1)
               /\ shape[r - row][c - col] = "#"
            THEN marker
            ELSE grid[r][c]]]

CountChar(rows, ch) ==
    Cardinality({rc \in UNION {{<<r, c>> : c \in 1..Len(rows[r])} : r \in 1..Len(rows)} :
                    rows[rc[1]][rc[2]] = ch})

count_empty(grid) == CountChar(grid, ".")

RECURSIVE count_needed_cells(_, _, _, _)
count_needed_cells(allTransformations, presentCounts, presentIdx, countIdx) ==
    IF presentIdx >= Len(presentCounts) THEN 0
    ELSE LET shapeSize == CountChar(allTransformations[presentIdx + 1][1], "#") IN
         (presentCounts[presentIdx + 1] - countIdx) * shapeSize
         + count_needed_cells(allTransformations, presentCounts, presentIdx + 1, 0)

\* try_place_presents: the loops return true at the first placement whose
\* recursive call returns true and false when none does; a placement that
\* fails is removed again, so the grid a later iteration sees is the grid
\* of the call.
RECURSIVE try_place_presents(_, _, _, _, _)
try_place_presents(grid, allTransformations, presentCounts, presentIdx, countIdx) ==
    IF presentIdx >= Len(presentCounts) THEN TRUE
    ELSE IF countIdx >= presentCounts[presentIdx + 1]
    THEN try_place_presents(grid, allTransformations, presentCounts, presentIdx + 1, 0)
    ELSE IF count_needed_cells(allTransformations, presentCounts, presentIdx, countIdx)
               > count_empty(grid)
    THEN FALSE
    ELSE \E t \in 1..Len(allTransformations[presentIdx + 1]) :
         \E row \in 0..(Len(grid) - 1), col \in 0..(Len(grid[1]) - 1) :
            LET shape == allTransformations[presentIdx + 1][t] IN
            /\ can_place(grid, shape, row, col)
            /\ try_place_presents(place_shape(grid, shape, row, col, Markers[presentIdx + 1]),
                                  allTransformations, presentCounts, presentIdx, countIdx + 1)

\* The shape lists and region lists read_input returns.
ShapeLists == UNION {[1..n -> ShapePatterns] : n \in 1..MaxShapes}
RegionsFor(n) == [width : Widths, height : Heights, counts : [1..n -> CountValues]]
RegionLists(n) == UNION {[1..k -> RegionsFor(n)] : k \in 0..MaxRegions}

PresentInit ==
    /\ shapes \in ShapeLists
    /\ regions \in RegionLists(Len(shapes))
    /\ regionIdx = 0
    /\ validRegions = 0
    /\ fits = <<>>
    /\ presentPc = "part1"
    /\ result12 = 0

\* One iteration of the region loop of advent_of_code_2025_day12_part1.
Day12Region ==
    /\ presentPc = "part1"
    /\ regionIdx < Len(regions)
    /\ LET region == regions[regionIdx + 1]
           allTransformations == [p \in 1..Len(shapes) |-> generate_transformations(shapes[p])]
           grid == [r \in 1..region.height |-> [c \in 1..region.width |-> "."]]
           ok == try_place_presents(grid, allTransformations, region.counts, 0, 0) IN
       /\ validRegions' = IF ok THEN validRegions + 1 ELSE validRegions
       /\ fits' = Append(fits, ok)
    /\ regionIdx' = regionIdx + 1
    /\ UNCHANGED <<shapes, regions, presentPc, result12>>

\* advent_of_code_2025_day12_part1 returns validRegions.
Day12Return ==
    /\ presentPc = "part1"
    /\ regionIdx = Len(regions)
    /\ result12' = validRegions
    /\ presentPc' = "done"
    /\ UNCHANGED <<shapes, regions, regionIdx, validRegions, fits>>

(***************************************************************************)
(* 2025 Day 9: rectangles between red tiles (src/2025/Day9/main.cpp).      *)
(* A tile is a record [x, y]; redTiles is the list read_input returned,    *)
(* numbered from 0 in the code and from 1 here.                            *)
(***************************************************************************)
Pt(px, py) == [x |-> px, y |-> py]

\* The coordinates of the tiles of a freely drawn input file.
Coords == {0, 1, 2}
TileLists == UNION {[1..n -> [x : Coords, y : Coords]] : n \in 0..MaxTiles}

\* Input files whose tiles trace a rectilinear polygon: a square, an L, a U
\* whose arms leave three columns free, a U whose arms are one column apart,
\* a staircase, and a tall strip with a notch one tile deep in its left side.
Polygons ==
    { <<Pt(0, 0), Pt(2, 0), Pt(2, 2), Pt(0, 2)>>,
      <<Pt(0, 0), Pt(4, 0), Pt(4, 1), Pt(1, 1), Pt(1, 4), Pt(0, 4)>>,
      <<Pt(0, 0), Pt(6, 0), Pt(6, 6), Pt(5, 6), Pt(5, 1), Pt(1, 1), Pt(1, 6), Pt(0, 6)>>,
      <<Pt(0, 0), Pt(3, 0), Pt(3, 5), Pt(2, 5), Pt(2, 1), Pt(1, 1), Pt(1, 5), Pt(0, 5)>>,
      <<Pt(0, 0), Pt(4, 0), Pt(4, 4), Pt(2, 4), Pt(2, 2), Pt(0, 2)>>,
      <<Pt(0, 0), Pt(2, 0), Pt(2, 30), Pt(0, 30), Pt(0, 5), Pt(1, 5), Pt(1, 3), Pt(0, 3)>> }

Abs(n) == IF n < 0 THEN 0 - n ELSE n
Max(a, b) == IF a < b THEN b ELSE a
Min(a, b) == IF a < b THEN a ELSE b

\* redTiles[(k + 1) % redTiles.size()] for the code's k = k1 - 1.
NextTile(redTiles, k1) == redTiles[(k1 % Len(redTiles)) + 1]

\* The two loops of solve, entered with i = 1, j = 2 and maxArea = 0.
RECURSIVE solve_loop(_, _, _, _)
solve_loop(redTiles, i, j, maxArea) ==
    IF i > Len(redTiles) THEN maxArea
    ELSE IF j > Len(redTiles) THEN solve_loop(redTiles, i + 1, i + 2, maxArea)
    ELSE LET p1 == redTiles[i]
             p2 == redTiles[j]
             area == (Abs(p2.x - p1.x) + 1) * (Abs(p2.y - p1.y) + 1) IN
         solve_loop(redTiles, i, j + 1,
                    IF p1.x # p2.x /\ p1.y # p2.y THEN Max(maxArea, area) ELSE maxArea)

\* solve with the outer loop started at the second tile.
solve_skips_first_tile(redTiles) == solve_loop(redTiles, 2, 3, 0)

solve(redTiles) == solve_loop(redTiles, 1, 2, 0)

\* The lambda isInsideOrOnPolygon.  The ray test compares px with
\* e1.x + (double)(e2.x - e1.x) * (py - e1.y) / (e2.y - e1.y); the two sides
\* are compared here after multiplying by e2.y - e1.y, which gives the same
\* answer for coordinates as small as the ones drawn.
isInsideOrOnPolygon(redTiles, px, py) ==
    \/ \E k \in 1..Len(redTiles) :
          LET p1 == redTiles[k]
              p2 == NextTile(redTiles, k) IN
          IF p1.x = p2.x /\ p1.x = px
          THEN py >= Min(p1.y, p2.y) /\ py <= Max(p1.y, p2.y)
          ELSE /\ p1.y = p2.y /\ p1.y = py
               /\ px >= Min(p1.x, p2.x) /\ px <= Max(p1.x, p2.x)
    \/ LET crossing ==
               {k \in 1..Len(redTiles) :
                   LET e1 == redTiles[k]
                       e2 == NextTile(redTiles, k)
                       dy == e2.y - e1.y IN
                   /\ (e1.y > py) # (e2.y > py)
                   /\ IF dy > 0
                      THEN (px - e1.x) * dy < (e2.x - e1.x) * (py - e1.y)
                      ELSE (px - e1.x) * dy > (e2.x - e1.x) * (py - e1.y)} IN
       Cardinality(crossing) % 2 = 1

samplesPerEdge == 10

\* The values a sampling loop "for (v = lo; v <= hi; v += step)" visits.
Samples(lo, hi, step) == {v \in lo..hi : (v - lo) % step = 0}

\* The lambda rectangleValid.
rectangleValid(redTiles, minX, maxX, minY, maxY) ==
    LET stepX == Max(1, (maxX - minX) \div samplesPerEdge)
        stepY == Max(1, (maxY - minY) \div samplesPerEdge) IN
    /\ isInsideOrOnPolygon(redTiles, minX, minY)
    /\ isInsideOrOnPolygon(redTiles, maxX, minY)
    /\ isInsideOrOnPolygon(redTiles, minX, maxY)
    /\ isInsideOrOnPolygon(redTiles, maxX, maxY)
    /\ \A x \in Samples(minX, maxX, stepX) :
          isInsideOrOnPolygon(redTiles, x, minY) /\ isInsideOrOnPolygon(redTiles, x, maxY)
    /\ \A y \in Samples(minY, maxY, stepY) :
          isInsideOrOnPolygon(redTiles, minX, y) /\ isInsideOrOnPolygon(redTiles, maxX, y)
    /\ \A k \in 1..Len(redTiles) :
          LET p1 == redTiles[k]
              p2 == NextTile(redTiles, k)
              edgeMinX == Min(p1.x, p2.x)
              edgeMaxX == Max(p1.x, p2.x)
              edgeMinY == Min(p1.y, p2.y)
              edgeMaxY == Max(p1.y, p2.y) IN
          IF p1.x = p2.x
          THEN ~(/\ p1.x > minX /\ p1.x < maxX
                 /\ edgeMinY < maxY /\ edgeMaxY > minY
                 /\ Max(edgeMinY, minY) < Min(edgeMaxY, maxY))
          ELSE IF p1.y = p2.y
          THEN ~(/\ p1.y > minY /\ p1.y < maxY
                 /\ edgeMinX < maxX /\ edgeMaxX > minX
                 /\ Max(edgeMinX, minX) < Min(edgeMaxX, maxX))
          ELSE TRUE

\* The two loops of solve_part2: maxArea, and the pairs (i, j) of the
\* rectangles that passed rectangleValid.
RECURSIVE solve_part2_loop(_, _, _, _)
solve_part2_loop(redTiles, i, j, acc) ==
    IF i > Len(redTiles) THEN acc
    ELSE IF j > Len(redTiles) THEN solve_part2_loop(redTiles, i + 1, i + 2, acc)
    ELSE LET p1 == redTiles[i]
             p2 == redTiles[j]
             minRectX == Min(p1.x, p2.x)
             maxRectX == Max(p1.x, p2.x)
             minRectY == Min(p1.y, p2.y)
             maxRectY == Max(p1.y, p2.y)
             area == (maxRectX - minRectX + 1) * (maxRectY - minRectY + 1) IN
         IF p1.x = p2.x \/ p1.y = p2.y
         THEN solve_part2_loop(redTiles, i, j + 1, acc)
         ELSE IF ~rectangleValid(redTiles, minRectX, maxRectX, minRectY, maxRectY)
         THEN solve_part2_loop(redTiles, i, j + 1, acc)
         ELSE solve_part2_loop(redTiles, i, j + 1,
                               [maxArea |-> Max(acc.maxArea, area),
                                accepted |-> acc.accepted \cup {<<i, j>>}])

solve_part2(redTiles) == solve_part2_loop(redTiles, 1, 2, [maxArea |-> 0, accepted |-> {}])

TileInit ==
    /\ tiles \in TileLists \cup Polygons
    /\ tilePc = "part1"
    /\ maxArea1 = 0
    /\ maxArea2 = 0
    /\ accepted = {}

\* advent_of_code_2025_day9_part1
Day9Part1 ==
    /\ tilePc = "part1"
    /\ maxArea1' = solve(tiles)
    /\ tilePc' = "part2"
    /\ UNCHANGED <<tiles, maxArea2, accepted>>

\* advent_of_code_2025_day9_part2
Day9Part2 ==
    /\ tilePc = "part2"
    /\ LET r == solve_part2(tiles) IN
       /\ maxArea2' = r.maxArea
       /\ accepted' = r.accepted
    /\ tilePc' = "done"
    /\ UNCHANGED <<tiles, maxArea1>>

(***************************************************************************)
(* 2025 Day 5, part 2: merging the fresh ranges (src/2025/Day5/main.cpp).  *)
(* A range is a record [start, end], both inclusive.                       *)
(***************************************************************************)
\* The ingredient IDs the range lines of an input file are drawn from, and
\* the ranges with start <= end over them.
Ids == {0, 1, 2, 3, 4}
Ranges == {r \in [start : Ids, end : Ids] : r.start <= r.end}
RangeLists == UNION {[1..n -> Ranges] : n \in 0..MaxRanges}

\* The orders std::sort may leave a list in under the comparator
\* a.start < b.start: every arrangement of the list with starts ascending
\* (ranges of equal start may come out in any order).
SortedByStart(list) ==
    {[k \in 1..Len(list) |-> list[p[k]]] : p \in
        {q \in Permutations(1..Len(list)) :
            \A k \in 1..(Len(list) - 1) : list[q[k]].start <= list[q[k + 1]].start}}

\* The body of the merging loop with the comparison made against
\* range.start, so that an adjacent range starts a new entry.
merge_body_overlap_only(merged, range) ==
    IF Len(merged) = 0 \/ merged[Len(merged)].end < range.start
    THEN Append(merged, range)
    ELSE [merged EXCEPT ![Len(merged)].end = Max(@, range.end)]

\* The body of the merging loop: the vector mergedRanges after one range.
merge_body(merged, range) ==
    IF Len(merged) = 0 \/ merged[Len(merged)].end < range.start - 1
    THEN Append(merged, range)
    ELSE [merged EXCEPT ![Len(merged)].end = Max(@, range.end)]

\* The counting loop: the sum of end - start + 1 over the merged ranges from the k-th on.
RECURSIVE count_merged(_, _)
count_merged(merged, k) ==
    IF k > Len(merged) THEN 0
    ELSE (merged[k].end - merged[k].start + 1) + count_merged(merged, k + 1)

RangeInit ==
    /\ inputRanges \in RangeLists
    /\ freshRanges = inputRanges
    /\ rangePc = "sort"
    /\ rangeIdx = 0
    /\ mergedRanges = <<>>
    /\ totalFreshIds = 0

\* std::sort of freshRanges by start.
Day5Sort ==
    /\ rangePc = "sort"
    /\ freshRanges' \in SortedByStart(freshRanges)
    /\ rangePc' = "merge"
    /\ UNCHANGED <<inputRanges, rangeIdx, mergedRanges, totalFreshIds>>

\* One iteration of the merging loop.
Day5Merge ==
    /\ rangePc = "merge"
    /\ rangeIdx < Len(freshRanges)
    /\ mergedRanges' = merge_body(mergedRanges, freshRanges[rangeIdx + 1])
    /\ rangeIdx' = rangeIdx + 1
    /\ UNCHANGED <<inputRanges, freshRanges, rangePc, totalFreshIds>>

\* The counting loop and the return of advent_of_code_2025_day5_part2.
Day5Count ==
    /\ rangePc = "merge"
    /\ rangeIdx = Len(freshRanges)
    /\ totalFreshIds' = count_merged(mergedRanges, 1)
    /\ rangePc' = "done"
    /\ UNCHANGED <<inputRanges, freshRanges, rangeIdx, mergedRanges>>

(***************************************************************************)
(* 2025 Day 4, part 2: removing accessible rolls (src/2025/Day4/main.cpp). *)
(* A grid is a list of rows of '@' and '.' characters, all of one length;  *)
(* rows and columns are numbered from 0 in the code and from 1 here.       *)
(***************************************************************************)
\* The grids read_input returns: no row at all, or a rectangle with at most
\* MaxEmpty cells that hold no roll.
GridRows == {1, 3, 4}
GridCols == {1, 4}
Cells(g) == UNION {{<<i, j>> : j \in 1..Len(g[i])} : i \in 1..Len(g)}
Grids ==
    {<<>>} \cup
    UNION {{g \in [1..r -> [1..c -> {"@", "."}]] :
               Cardinality({ij \in Cells(g) : g[ij[1]][ij[2]] = "."}) <= MaxEmpty} :
           r \in GridRows, c \in GridCols}

\* The eight directions N, NE, E, SE, S, SW, W, NW.
dx == <<-1, -1, 0, 1, 1, 1, 0, -1>>
dy == <<0, 1, 1, 1, 0, -1, -1, -1>>

\* adjacentRolls of the cell (i, j): the directions whose neighbour is
\* within bounds and holds '@'.
adjacentRolls(g, i, j) ==
    LET rows == Len(g)
        cols == Len(g[1]) IN
    Cardinality({dir \in 1..8 :
                    LET ni == i + dx[dir]
                        nj == j + dy[dir] IN
                    /\ ni >= 1 /\ ni <= rows /\ nj >= 1 /\ nj <= cols
                    /\ g[ni][nj] = "@"})

\* The cells a round collects when it also tests the cells without a roll.
toRemoveAnyCell(g) ==
    {ij \in (1..Len(g)) \X (1..Len(g[1])) : adjacentRolls(g, ij[1], ij[2]) < 4}

\* toRemove: the cells one round of the while loop collects.
toRemove(g) ==
    {ij \in (1..Len(g)) \X (1..Len(g[1])) :
        g[ij[1]][ij[2]] = "@" /\ adjacentRolls(g, ij[1], ij[2]) < 4}

RollInit ==
    /\ inputGrid \in Grids
    /\ rollGrid = inputGrid
    /\ rollPc = "start"
    /\ changed = TRUE
    /\ rounds = 0
    /\ totalRemoved = 0

\* advent_of_code_2025_day4_part2 on a file without rows: returns 0.
Day4Empty ==
    /\ rollPc = "start"
    /\ Len(rollGrid) = 0
    /\ rollPc' = "done"
    /\ UNCHANGED <<inputGrid, rollGrid, changed, rounds, totalRemoved>>

\* The function enters its while loop.
Day4Enter ==
    /\ rollPc = "start"
    /\ Len(rollGrid) > 0
    /\ rollPc' = "loop"
    /\ UNCHANGED <<inputGrid, rollGrid, changed, rounds, totalRemoved>>

\* One iteration of the while loop.
Day4Round ==
    /\ rollPc = "loop"
    /\ changed
    /\ LET rem == toRemove(rollGrid) IN
       /\ rollGrid' = [i \in 1..Len(rollGrid) |->
                          [j \in 1..Len(rollGrid[i]) |->
                              IF <<i, j>> \in rem THEN "." ELSE rollGrid[i][j]]]
       /\ totalRemoved' = totalRemoved + Cardinality(rem)
       /\ changed' = (rem # {})
    /\ rounds' = rounds + 1
    /\ UNCHANGED <<inputGrid, rollPc>>

\* The loop ends and the function returns totalRemoved.
Day4Return ==
    /\ rollPc = "loop"
    /\ ~changed
    /\ rollPc' = "done"
    /\ UNCHANGED <<inputGrid, rollGrid, changed, rounds, totalRemoved>>

(***************************************************************************)
(* The specifications.                                                     *)
(***************************************************************************)
MainIdle ==
    /\ day = "2025_1"
    /\ files = [f \in FilesOf("2025_1") |->
                   [status |-> "readable", field |-> <<"7">>, unsolved |-> {}]]
    /\ nextComp = 1
    /\ started = <<>>
    /\ stdout = <<>>
    /\ stderr = <<>>
    /\ mainPc = "running"
    /\ exitStatus = 0

DialIdle ==
    /\ instructions = <<>>
    /\ dialPc = "part1"
    /\ dialIdx = 0
    /\ position = kStartingPosition
    /\ zero_counter = 0
    /\ positions1 = <<>>
    /\ result1 = 0
    /\ result2 = 0
    /\ wrapped = FALSE

MachineIdle ==
    /\ machines = <<>>
    /\ machinePc = "part1"
    /\ machineIdx = 0
    /\ totalPresses = 0
    /\ presses = 0
    /\ total1 = 0
    /\ total2 = 0
    /\ failedPart = 0
    /\ failedMachine = 0

NetIdle ==
    /\ graph = EmptyMap
    /\ netPc = "part1"
    /\ pathCount = 0
    /\ totalValidPaths = 0
    /\ memo = EmptyMap

PresentIdle ==
    /\ shapes = <<>>
    /\ regions = <<>>
    /\ regionIdx = 0
    /\ validRegions = 0
    /\ fits = <<>>
    /\ presentPc = "part1"
    /\ result12 = 0

TileIdle ==
    /\ tiles = <<>>
    /\ tilePc = "part1"
    /\ maxArea1 = 0
    /\ maxArea2 = 0
    /\ accepted = {}

RangeIdle ==
    /\ inputRanges = <<>>
    /\ freshRanges = <<>>
    /\ rangePc = "sort"
    /\ rangeIdx = 0
    /\ mergedRanges = <<>>
    /\ totalFreshIds = 0

RollIdle ==
    /\ inputGrid = <<>>
    /\ rollGrid = <<>>
    /\ rollPc = "start"
    /\ changed = TRUE
    /\ rounds = 0
    /\ totalRemoved = 0

EarlierIdle == MainIdle /\ DialIdle /\ MachineIdle /\ NetIdle
earlierVars == <<mainVars, dialVars, machineVars, netVars>>
LaterIdle == PresentIdle /\ TileIdle /\ RangeIdle /\ RollIdle

NextMain ==
    \/ PartReturns /\ UNCHANGED <<dialVars, machineVars, netVars, laterVars>>
    \/ PartThrows /\ UNCHANGED <<dialVars, machineVars, netVars, laterVars>>
    \/ MainReturn /\ UNCHANGED <<dialVars, machineVars, netVars, laterVars>>

InitMain == MainInit /\ DialIdle /\ MachineIdle /\ NetIdle /\ LaterIdle

SpecMain == InitMain /\ [][NextMain]_vars

NextDay1 ==
    \/ Part1Iter /\ UNCHANGED <<mainVars, machineVars, netVars, laterVars>>
    \/ Part1Return /\ UNCHANGED <<mainVars, machineVars, netVars, laterVars>>
    \/ Part2Iter /\ UNCHANGED <<mainVars, machineVars, netVars, laterVars>>
    \/ Part2Trap /\ UNCHANGED <<mainVars, machineVars, netVars, laterVars>>
    \/ Part2Return /\ UNCHANGED <<mainVars, machineVars, netVars, laterVars>>

InitDay1 == DialInit /\ MainIdle /\ MachineIdle /\ NetIdle /\ LaterIdle

SpecDay1 == InitDay1 /\ [][NextDay1]_vars

NextDay10 ==
    \/ Day10Part1Iter /\ UNCHANGED <<mainVars, dialVars, netVars, laterVars>>
    \/ Day10Part1Throw /\ UNCHANGED <<mainVars, dialVars, netVars, laterVars>>
    \/ Day10Part1Return /\ UNCHANGED <<mainVars, dialVars, netVars, laterVars>>
    \/ Day10Part2Iter /\ UNCHANGED <<mainVars, dialVars, netVars, laterVars>>
    \/ Day10Part2Throw /\ UNCHANGED <<mainVars, dialVars, netVars, laterVars>>
    \/ Day10Part2Return /\ UNCHANGED <<mainVars, dialVars, netVars, laterVars>>

InitDay10 == MachineInit /\ MainIdle /\ DialIdle /\ NetIdle /\ LaterIdle

SpecDay10 == InitDay10 /\ [][NextDay10]_vars

NextDay11 ==
    \/ Day11Part1 /\ UNCHANGED <<mainVars, dialVars, machineVars, laterVars>>
    \/ Day11Part2 /\ UNCHANGED <<mainVars, dialVars, machineVars, laterVars>>

InitDay11 == NetInit /\ MainIdle /\ DialIdle /\ MachineIdle /\ LaterIdle

SpecDay11 == InitDay11 /\ [][NextDay11]_vars

NextDay12 ==
    \/ Day12Region /\ UNCHANGED <<earlierVars, tileVars, rangeVars, rollVars>>
    \/ Day12Return /\ UNCHANGED <<earlierVars, tileVars, rangeVars, rollVars>>

InitDay12 == PresentInit /\ EarlierIdle /\ TileIdle /\ RangeIdle /\ RollIdle

SpecDay12 == InitDay12 /\ [][NextDay12]_vars

NextDay9 ==
    \/ Day9Part1 /\ UNCHANGED <<earlierVars, presentVars, rangeVars, rollVars>>
    \/ Day9Part2 /\ UNCHANGED <<earlierVars, presentVars, rangeVars, rollVars>>

InitDay9 == TileInit /\ EarlierIdle /\ PresentIdle /\ RangeIdle /\ RollIdle

SpecDay9 == InitDay9 /\ [][NextDay9]_vars

NextDay5 ==
    \/ Day5Sort /\ UNCHANGED <<earlierVars, presentVars, tileVars, rollVars>>
    \/ Day5Merge /\ UNCHANGED <<earlierVars, presentVars, tileVars, rollVars>>
    \/ Day5Count /\ UNCHANGED <<earlierVars, presentVars, tileVars, rollVars>>

InitDay5 == RangeInit /\ EarlierIdle /\ PresentIdle /\ TileIdle /\ RollIdle

SpecDay5 == InitDay5 /\ [][NextDay5]_vars

NextDay4 ==
    \/ Day4Empty /\ UNCHANGED <<earlierVars, presentVars, tileVars, rangeVars>>
    \/ Day4Enter /\ UNCHANGED <<earlierVars, presentVars, tileVars, rangeVars>>
    \/ Day4Round /\ UNCHANGED <<earlierVars, presentVars, tileVars, rangeVars>>
    \/ Day4Return /\ UNCHANGED <<earlierVars, presentVars, tileVars, rangeVars>>

InitDay4 == RollInit /\ EarlierIdle /\ PresentIdle /\ TileIdle /\ RangeIdle

\* The function runs on its own thread of control from its call to its
\* return: a step that can be taken is taken.
SpecDay4 == InitDay4 /\ [][NextDay4]_vars /\ WF_vars(NextDay4)

(***************************************************************************)
(* Claims about main and read_input (SpecMain).                            *)
(***************************************************************************)
CompOf(i) == Plan(day)[started[i]]
FileOf(i) == files[CompOf(i).file]

\* The answer lines on standard output that computation k of the plan wrote.
AnswersOf(k) == {j \in 1..Len(stdout) : stdout[j].comp = k}

\* Exit status 1 from the computation started i-th: nothing ran after it and
\* it left no answer line.
EndedInError(i) ==
    /\ mainPc = "exited"
    /\ exitStatus = 1
    /\ i = Len(started)
    /\ Len(stderr) = 1
    /\ AnswersOf(started[i]) = {}

\* C1: in every program, a part computation started on a file that is missing
\* or cannot be opened gets an error from read_input and no data; main catches
\* it, prints the error message and exits with status 1.
C1_MissingFileExits1 ==
    \A i \in 1..Len(started) :
        FileOf(i).status # "readable" =>
            /\ EndedInError(i)
            /\ stderr[1] = IF FileOf(i).status = "missing"
                           THEN "File does not exist" ELSE "Cannot open file"

\* The example file is read and answered, then input.txt is missing.
C1_Witness ==
    /\ mainPc = "exited"
    /\ Len(started) > 1
    /\ FileOf(Len(started)).status = "missing"
    /\ stderr = <<"File does not exist">>

\* C2 as stated: in every program with a numeric field, a part computation
\* started on a readable file whose field is not a well-formed number ends the
\* run with exit status 1 and writes no answer for that file.
C2_MalformedFieldExits1 ==
    \A i \in 1..Len(started) :
        (day \in NumericDays /\ FileOf(i).status = "readable"
            /\ ~WellFormed(FileOf(i).field)) => EndedInError(i)

\* C3 as stated: a finished run either wrote every answer line and exited
\* with status 0, or exited with status 1 and wrote no answer line at all.
C3_AllOrNothing ==
    mainPc = "exited" =>
        \/ exitStatus = 0 /\ Len(stdout) = Len(Plan(day))
        \/ exitStatus = 1 /\ stdout = <<>>

\* C3 amended: a finished run either wrote every answer line and exited with
\* status 0, or exited with status 1 after writing exactly the answer lines of
\* the computations that completed before the failing one (and one error
\* message); with a valid example file and a missing input.txt the example's
\* answers are written before the exit with status 1.
C3_Amended ==
    /\ \A j \in 1..Len(stdout) : stdout[j].comp = j
    /\ mainPc = "exited" =>
        \/ exitStatus = 0 /\ Len(stdout) = Len(Plan(day)) /\ stderr = <<>>
        \/ /\ exitStatus = 1
           /\ Len(stderr) = 1
           /\ Len(stdout) = started[Len(started)] - 1
           /\ Len(stdout) < Len(Plan(day))

\* The example file was answered by both parts, input.txt is missing.
C3_Witness ==
    /\ mainPc = "exited"
    /\ exitStatus = 1
    /\ day = "2025_1"
    /\ files["input_example.txt"].status = "readable"
    /\ files["input.txt"].status = "missing"
    /\ Len(stdout) = 2

Kind(c) == [example |-> c.file # "input.txt", part |-> c.part]
FourKinds == <<[example |-> TRUE, part |-> 1], [example |-> TRUE, part |-> 2],
               [example |-> FALSE, part |-> 1], [example |-> FALSE, part |-> 2]>>

\* Position of a computation in the fixed order of the four.
Rank(c) == CHOOSE r \in 1..4 : FourKinds[r] = Kind(c)

\* C4: main starts its part computations in the fixed order (example part 1,
\* example part 2, input part 1, input part 2), each at most once; the exit
\* status is 0 exactly when every one of them completed, and once one raises
\* an error the run has ended: no later one is started and nothing is retried.
C4_FixedOrder ==
    /\ \A i \in 1..Len(started) : started[i] = i
    /\ \A i \in 1..Len(started) : \A j \in 1..Len(started) :
          i < j => Rank(CompOf(i)) < Rank(CompOf(j))
    /\ mainPc = "exited" => (exitStatus = 0 <=> Len(stdout) = Len(Plan(day)))
    /\ mainPc = "exited" => exitStatus \in {0, 1}
    /\ stderr # <<>> =>
          /\ mainPc = "exited"
          /\ exitStatus = 1
          /\ Len(stderr) = 1
          /\ Len(started) = Len(stdout) + 1

\* 2025 Day 6 ran example part 1 and part 2 and input part 1; input part 2
\* raised and the run ended with status 1.
C4_Witness ==
    /\ day = "2025_6"
    /\ mainPc = "exited"
    /\ exitStatus = 1
    /\ started = <<1, 2, 3, 4>>
    /\ Len(stdout) = 3

(***************************************************************************)
(* Claims about the dial of 2025 Day 1 (SpecDay1).  The reference turns    *)
(* the dial one click at a time; a full turn of 100 clicks passes 0 once   *)
(* and comes back to where it started.                                     *)
(***************************************************************************)
\* Where the dial points after j single clicks from pos.
ClickPosition(pos, dir, j) ==
    IF dir = "R" THEN (pos + j) % kDialSize ELSE (pos - j) % kDialSize

\* n single clicks from pos: where the dial points and how many of the clicks
\* ended on 0.
Clicks(pos, dir, n) ==
    [position |-> ClickPosition(pos, dir, n),
     zeros |-> Cardinality({j \in 1..n : ClickPosition(pos, dir, j) = 0})]

TurnByClicks(pos, ins) ==
    LET r == Clicks(pos, ins.direction, ins.steps % kDialSize) IN
    [position |-> r.position, zeros |-> r.zeros + (ins.steps \div kDialSize)]

RECURSIVE SimulateClicks(_, _)
\* The first k instructions click by click: the position, the clicks that
\* ended on 0 and the instructions that ended on 0.
SimulateClicks(ins, k) ==
    IF k = 0 THEN [position |-> kStartingPosition, zeros |-> 0, rests |-> 0]
    ELSE LET before == SimulateClicks(ins, k - 1)
             t == TurnByClicks(before.position, ins[k]) IN
         [position |-> t.position, zeros |-> before.zeros + t.zeros,
          rests |-> before.rests + (IF t.position = 0 THEN 1 ELSE 0)]

\* C5: for every instruction list with non-negative step counts, part 2
\* returns the number of single clicks after which the dial points at 0, the
\* count of the click-by-click simulation.
C5_Part2CountsClicks ==
    dialPc = "done" =>
        result2 = SimulateClicks(instructions, Len(instructions)).zeros

\* C6: for every instruction list with non-negative step counts, part 1
\* returns the number of instructions after which the dial rests on 0, and
\* after every instruction its position is the simulated one, within 0..99.
C6_Part1CountsRests ==
    /\ \A k \in 1..Len(positions1) :
          /\ positions1[k] \in 0..(kDialSize - 1)
          /\ positions1[k] = SimulateClicks(instructions, k).position
    /\ dialPc = "part1" =>
          zero_counter = SimulateClicks(instructions, dialIdx).rests
    /\ dialPc # "part1" =>
          result1 = SimulateClicks(instructions, Len(instructions)).rests

\* Part 1 returned 1 for a list that turns left by more than a full turn and
\* comes to rest on 0.
C6_Witness ==
    /\ dialPc # "part1"
    /\ result1 = 1
    /\ Len(instructions) = 2
    /\ instructions[1] = [direction |-> "L", steps |-> 150]
    /\ positions1[1] = 0

(***************************************************************************)
(* Claims about the machines of 2025 Day 10 (SpecDay10).  The references   *)
(* enumerate every vector of press counts.                                 *)
(***************************************************************************)
\* What the presses x of the buttons A add to counter i.
Effect(A, x, i) == SumTo([k \in 1..Len(A) |-> A[k][i] * x[k]], Len(A))

\* The fewest presses that bring every counter exactly to its requirement
\* (no button that acts on a counter can be pressed more than the largest
\* requirement); -1 when no press counts do.
MinJoltagePresses(A, b) ==
    LET n == Len(A)
        cap == SetMax({b[i] : i \in DOMAIN b})
        sols == {x \in [1..n -> 0..cap] : \A i \in DOMAIN b : Effect(A, x, i) = b[i]} IN
    IF sols = {} THEN -1 ELSE SetMin({SumTo(x, n) : x \in sols})

\* The fewest presses that bring every light to its target state (a second
\* press of a button undoes the first); -1 when no presses do.
MinLightPresses(A, target) ==
    LET n == Len(A)
        sols == {x \in [1..n -> Bit] :
                    \A i \in DOMAIN target : Effect(A, x, i) % 2 = target[i]} IN
    IF sols = {} THEN -1 ELSE SetMin({SumTo(x, n) : x \in sols})

MinJoltageOf(k) == MinJoltagePresses(machines[k].buttons, machines[k].joltageReq)
MinLightsOf(k) == MinLightPresses(machines[k].buttons, machines[k].target)

\* C7: solveIntegerLinear returns the minimum total number of presses that
\* makes every counter equal its requirement, and -1 when no press counts do:
\* the value part 2 got for the machine it solved last is that minimum, and
\* a machine part 2 threw on has none.
C7_SolveIntegerLinearMinimum ==
    /\ (machinePc \in {"part2", "done"} /\ machineIdx > 0)
          => presses = MinJoltageOf(machineIdx)
    /\ (machinePc = "raised" /\ failedPart = 2)
          => MinJoltageOf(failedMachine) = -1

\* C8: part 1 and part 2 throw, naming a machine of the file, whenever some
\* machine has no solution, and return a total only when every machine has
\* one; the total is then the sum of the machines' minimum press counts.
C8_ThrowIffUnsolvable ==
    LET n == Len(machines)
        lightless == {k \in 1..n : MinLightsOf(k) = -1}
        joltless == {k \in 1..n : MinJoltageOf(k) = -1} IN
    /\ machinePc = "raised" => failedMachine \in 1..n
    /\ (machinePc \in {"part2", "done"} \/ failedPart = 2)
          => /\ lightless = {}
             /\ total1 = SumTo([k \in 1..n |-> MinLightsOf(k)], n)
    /\ machinePc = "done"
          => /\ joltless = {}
             /\ total2 = SumTo([k \in 1..n |-> MinJoltageOf(k)], n)

\* C16: solveGF2 returns the fewest buttons, each pressed at most once,
\* whose toggles combine to the target light state, and -1 exactly when no
\* set of buttons does, an empty button list and an all-off target
\* included: the value part 1 got for the machine it solved last is that
\* minimum, and a machine part 1 threw on has none.
C16_SolveGF2Minimum ==
    /\ (machinePc = "part1" /\ machineIdx > 0) => presses = MinLightsOf(machineIdx)
    /\ (machinePc = "raised" /\ failedPart = 1) => MinLightsOf(failedMachine) = -1

(***************************************************************************)
(* Claims about the network of 2025 Day 11 (SpecDay11).  The reference     *)
(* lists the paths themselves: a path is the sequence of its edges, an     *)
(* edge <<n, k>> is the k-th entry of the output list of device n.         *)
(***************************************************************************)
EdgesOf(g) == UNION {{<<n, k>> : k \in 1..Len(g[n])} : n \in DOMAIN g}

Dest(e, g) == g[e[1]][e[2]]

\* The node a path that starts at `from` ends on.
EndOf(p, from, g) == IF Len(p) = 0 THEN from ELSE Dest(p[Len(p)], g)

RECURSIVE PathsOfLength(_, _, _)
\* Every path of exactly len edges that starts at `from`.
PathsOfLength(from, g, len) ==
    IF len = 0 THEN {<<>>}
    ELSE UNION {{Append(p, e) : e \in {d \in EdgesOf(g) : d[1] = EndOf(p, from, g)}} :
                   p \in PathsOfLength(from, g, len - 1)}

\* Every path from `from` to `to` (without a cycle no path is longer than the
\* number of devices).
PathsBetween(from, to, g) ==
    UNION {{p \in PathsOfLength(from, g, len) : EndOf(p, from, g) = to} :
              len \in 0..Cardinality(DOMAIN g)}

NodesOn(p, from, g) == {from} \cup {Dest(p[i], g) : i \in 1..Len(p)}

\* C9: count_paths_with_nodes called from 'svr' with an empty memo returns
\* the number of paths from 'svr' to 'out' that pass through both 'dac' and
\* 'fft', as found by listing every path and keeping those that visit both.
C9_MemoizedCountIsBruteForce ==
    netPc = "done" =>
        totalValidPaths =
            Cardinality({p \in PathsBetween("svr", "out", graph) :
                            {"dac", "fft"} \subseteq NodesOn(p, "svr", graph)})

\* Part 2 counted more than one path through 'dac' and 'fft', and left out
\* some other path from 'svr' to 'out'.
C9_Witness ==
    /\ netPc = "done"
    /\ totalValidPaths > 1
    /\ Cardinality(PathsBetween("svr", "out", graph)) > totalValidPaths

\* C10: count_paths(current, target) is the number of paths from current to
\* target, an output listed twice counting twice: 1 when current is the
\* target, 0 when current has no output list; part 1 returns the number of
\* paths from 'you' to 'out'.
C10_CountPathsCountsPaths ==
    netPc # "part1" =>
        /\ pathCount = Cardinality(PathsBetween("you", "out", graph))
        /\ \A current \in Nodes : \A target \in Nodes :
              /\ count_paths(current, target, graph)
                    = Cardinality(PathsBetween(current, target, graph))
              /\ current = target => count_paths(current, target, graph) = 1
              /\ (current # target /\ current \notin DOMAIN graph)
                    => count_paths(current, target, graph) = 0

\* Part 1 counted the paths of a graph in which 'you' lists the same output
\* twice.
C10_Witness ==
    /\ netPc # "part1"
    /\ "you" \in DOMAIN graph
    /\ Len(graph["you"]) = 2
    /\ graph["you"][1] = graph["you"][2]
    /\ pathCount = 4

(***************************************************************************)
(* Claims about 2025 Day 12 (SpecDay12).                                   *)
(***************************************************************************)
\* The cells of a present: the '#' cells of its pattern as (row, column).
CellsOf(shape) ==
    {rc \in UNION {{<<r, c>> : c \in 1..Len(shape[r])} : r \in 1..Len(shape)} :
        shape[rc[1]][rc[2]] = "#"}

QuarterTurn(cells) == {<<rc[2], 0 - rc[1]>> : rc \in cells}
Mirror(cells) == {<<rc[1], 0 - rc[2]>> : rc \in cells}
\* A cell set moved so that its topmost row and leftmost column are 0.
Anchored(cells) ==
    LET top == SetMin({rc[1] : rc \in cells})
        left == SetMin({rc[2] : rc \in cells}) IN
    {<<rc[1] - top, rc[2] - left>> : rc \in cells}

\* The rotations and flips of a present.
Orientations(cells) ==
    LET q1 == QuarterTurn(cells)
        q2 == QuarterTurn(q1)
        q3 == QuarterTurn(q2)
        m0 == Mirror(cells)
        m1 == QuarterTurn(m0)
        m2 == QuarterTurn(m1)
        m3 == QuarterTurn(m2) IN
    {Anchored(x) : x \in {cells, q1, q2, q3, m0, m1, m2, m3}}

\* The presents a region requests: presentCounts[p] copies of shape p.
RECURSIVE Requested(_, _)
Requested(presentCounts, p) ==
    IF p > Len(presentCounts) THEN <<>>
    ELSE [k \in 1..presentCounts[p] |-> p] \o Requested(presentCounts, p + 1)

\* Some placement puts the presents wanted[k..] into the free cells of the
\* region, each in some orientation at some offset, all cells inside the
\* region and no cell covered twice.
RECURSIVE CanFit(_, _, _, _)
CanFit(region, wanted, k, covered) ==
    IF k > Len(wanted) THEN TRUE
    ELSE \E o \in Orientations(CellsOf(shapes[wanted[k]])) :
         \E dr \in 0..(region.height - 1), dc \in 0..(region.width - 1) :
            LET placed == {<<rc[1] + dr, rc[2] + dc>> : rc \in o} IN
            /\ \A rc \in placed : rc[1] < region.height /\ rc[2] < region.width
            /\ placed \cap covered = {}
            /\ CanFit(region, wanted, k + 1, covered \cup placed)

PlacementExists(region) == CanFit(region, Requested(region.counts, 1), 1, {})

\* C11: try_place_presents returns true for a region exactly when some
\* placement puts every requested present, in any rotation or flip, inside
\* the region with no cell covered twice, and part 1 returns the number of
\* such regions.
C11_CountsFittingRegions ==
    /\ \A i \in 1..Len(fits) : fits[i] = PlacementExists(regions[i])
    /\ presentPc = "done" =>
          result12 = Cardinality({i \in 1..Len(regions) : PlacementExists(regions[i])})

(***************************************************************************)
(* Claims about 2025 Day 9 (SpecDay9).                                     *)
(***************************************************************************)
\* The pairs of tiles of the input, and the inclusive tile area of the
\* rectangle spanned by a pair.
TilePairs == {ij \in (1..Len(tiles)) \X (1..Len(tiles)) : ij[1] < ij[2]}
AreaOf(ij) ==
    (Abs(tiles[ij[1]].x - tiles[ij[2]].x) + 1) * (Abs(tiles[ij[1]].y - tiles[ij[2]].y) + 1)
Slanted(ij) == tiles[ij[1]].x # tiles[ij[2]].x /\ tiles[ij[1]].y # tiles[ij[2]].y

\* A tile lies on the boundary of the polygon: on the segment between two
\* consecutive red tiles.
OnBoundary(px, py) ==
    \E k \in 1..Len(tiles) :
        LET a == tiles[k]
            b == NextTile(tiles, k) IN
        \/ a.x = b.x /\ px = a.x /\ Min(a.y, b.y) <= py /\ py <= Max(a.y, b.y)
        \/ a.y = b.y /\ py = a.y /\ Min(a.x, b.x) <= px /\ px <= Max(a.x, b.x)

\* A tile off the boundary lies inside the polygon: the horizontal line half
\* a tile above it meets an odd number of vertical sides to its right.
StrictlyInside(px, py) ==
    Cardinality({k \in 1..Len(tiles) :
                    LET a == tiles[k]
                        b == NextTile(tiles, k) IN
                    /\ a.x = b.x /\ a.x > px
                    /\ Min(a.y, b.y) <= py /\ py < Max(a.y, b.y)}) % 2 = 1

\* Every tile of the rectangle spanned by a pair lies inside or on the
\* boundary of the polygon.
WithinPolygon(ij) ==
    LET a == tiles[ij[1]]
        b == tiles[ij[2]] IN
    \A px \in Min(a.x, b.x)..Max(a.x, b.x), py \in Min(a.y, b.y)..Max(a.y, b.y) :
        OnBoundary(px, py) \/ StrictlyInside(px, py)

\* C12: for tiles tracing a rectilinear polygon solve_part2 returns the
\* largest area of a rectangle between two red tiles whose tiles all lie
\* inside or on the polygon, 0 when there is none, and never accepts a
\* rectangle holding a tile outside the polygon.
C12_LargestRectangleInPolygon ==
    (tilePc = "done" /\ tiles \in Polygons) =>
        /\ maxArea2 = SetMax({0} \cup {AreaOf(ij) : ij \in {p \in TilePairs : WithinPolygon(p)}})
        /\ \A ij \in accepted : WithinPolygon(ij)

Covered(list) == UNION {list[k].start..list[k].end : k \in 1..Len(list)}

\* C14: the merged list part 2 builds is at every step sorted by start with
\* ranges pairwise disjoint and not adjacent, and part 2 returns the number
\* of distinct integers covered by at least one range of the input.
C14_CountsUnionOfRanges ==
    /\ \A k \in 1..(Len(mergedRanges) - 1) :
          mergedRanges[k].end + 1 < mergedRanges[k + 1].start
    /\ \A k \in 1..Len(mergedRanges) : mergedRanges[k].start <= mergedRanges[k].end
    /\ rangePc = "done" =>
          /\ Covered(mergedRanges) = Covered(inputRanges)
          /\ totalFreshIds = Cardinality(Covered(inputRanges))

\* Part 2 has returned for an input that is not sorted, holds two adjacent
\* ranges and leaves a gap: two merged ranges remain.
C14_Witness ==
    /\ rangePc = "done"
    /\ Len(mergedRanges) = 2
    /\ \E i, j \in 1..Len(inputRanges) :
          i < j /\ inputRanges[j].start < inputRanges[i].start
    /\ \E i, j \in 1..Len(inputRanges) :
          i # j /\ inputRanges[i].end + 1 = inputRanges[j].start

(***************************************************************************)
(* Claims about 2025 Day 4 (SpecDay4).                                     *)
(***************************************************************************)
\* The rolls next to a cell, and the rolls of a grid that are accessible:
\* fewer than 4 of their 8 neighbours hold a roll.
RollsOf(g) == {ij \in Cells(g) : g[ij[1]][ij[2]] = "@"}
Neighbours(ij) ==
    {n \in ((ij[1] - 1)..(ij[1] + 1)) \X ((ij[2] - 1)..(ij[2] + 1)) : n # ij}
Accessible(g) == {ij \in RollsOf(g) : Cardinality(Neighbours(ij) \cap RollsOf(g)) < 4}

\* C15: part 2 terminates; when it has stopped no remaining roll is
\* accessible and the total returned is the number of rolls of the input
\* that are gone from the final grid; and every round removes exactly the
\* rolls that were accessible when it began, and counts them.
C15_RemovesUntilNoneAccessible ==
    /\ <>(rollPc = "done")
    /\ [](rollPc = "done" =>
            /\ Accessible(rollGrid) = {}
            /\ totalRemoved = Cardinality(RollsOf(inputGrid) \ RollsOf(rollGrid))
            /\ RollsOf(rollGrid) \subseteq RollsOf(inputGrid))
    /\ [][rounds' # rounds =>
            /\ RollsOf(rollGrid') = RollsOf(rollGrid) \ Accessible(rollGrid)
            /\ totalRemoved' = totalRemoved + Cardinality(Accessible(rollGrid))]_vars

\* Part 2 has stopped after a round that removed rolls and a round that
\* found none, with rolls left in the grid.
C15_Witness ==
    /\ rollPc = "done"
    /\ rounds >= 2
    /\ RollsOf(rollGrid) # {}
    /\ totalRemoved > 0

====
